---- MODULE Spec2Model ----
(***************************************************************************)
(* Model of packager/src/ModuleGraph/worker/transform-module.js:           *)
(* one call of transformModule(content, options, callback).                *)
(*                                                                         *)
(* JavaScript strings are sequences of one-character strings (the grave    *)
(* accent and the replacement character are written by their code point),  *)
(* Buffers are sequences of bytes, JavaScript values that may be undefined *)
(* or null are records tagged by the field t, objects keep their keys in   *)
(* insertion order as sequences of [key, value] entries, and object        *)
(* identity is a reference into heap.  The transformer raises Error        *)
(* objects, and options.variants is an object or is not passed.            *)
(***************************************************************************)
EXTENDS Naturals, Sequences, FiniteSets

\* ------------------------------------------------------------------ bounds
\* Largest number of keys of an options.variants mapping that is explored.
MaxVariants == 2

\* ------------------------------------------------------- JavaScript values
Undefined == [t |-> "undefined"]
Null == [t |-> "null"]
JSTrue == [t |-> "boolean", b |-> TRUE]
JSFalse == [t |-> "boolean", b |-> FALSE]
Str(chars) == [t |-> "str", s |-> chars]
Obj(members) == [t |-> "obj", members |-> members]
Err(name) == [t |-> "error", name |-> name]

\* ToBoolean of the values the model uses (undefined, null, booleans,
\* strings, objects, errors).
Truthy(v) ==
  CASE v.t = "undefined" -> FALSE
    [] v.t = "null" -> FALSE
    [] v.t = "boolean" -> v.b
    [] v.t = "str" -> v.s # <<>>
    [] OTHER -> TRUE

\* a || b
OrElse(a, b) == IF Truthy(a) THEN a ELSE b

\* ------------------------------------------------------- string primitives
EndsWith(s, suffix) ==
  /\ Len(s) >= Len(suffix)
  /\ SubSeq(s, Len(s) - Len(suffix) + 1, Len(s)) = suffix

StartsWithAt(s, i, prefix) ==
  /\ i + Len(prefix) - 1 <= Len(s)
  /\ SubSeq(s, i, i + Len(prefix) - 1) = prefix

\* First position >= i where sub occurs in s, 0 when there is none.
RECURSIVE IndexOfFrom(_, _, _)
IndexOfFrom(s, sub, i) ==
  IF i + Len(sub) - 1 > Len(s) THEN 0
  ELSE IF StartsWithAt(s, i, sub) THEN i
  ELSE IndexOfFrom(s, sub, i + 1)

\* path.basename for a path without trailing separators: the part after the
\* last "/".
RECURSIVE basename(_)
basename(path) ==
  LET i == IndexOfFrom(path, <<"/">>, 1)
  IN IF i = 0 THEN path ELSE basename(SubSeq(path, i + 1, Len(path)))

\* Array.prototype.join over an array of strings.
RECURSIVE Join(_, _)
Join(strs, sep) ==
  IF strs = <<>> THEN <<>>
  ELSE IF Len(strs) = 1 THEN strs[1].s
  ELSE strs[1].s \o sep \o Join(Tail(strs), sep)

\* -------------------------------------------------------- Buffer encodings
\* Printable ASCII, code points 32..126 in order.
Ascii == <<" ", "!", "\"", "#", "$", "%", "&", "'", "(", ")", "*", "+", ",", "-", ".", "/", "0", "1", "2", "3", "4", "5", "6", "7", "8", "9", ":", ";", "<", "=", ">", "?", "@", "A", "B", "C", "D", "E", "F", "G", "H", "I", "J", "K", "L", "M", "N", "O", "P", "Q", "R", "S", "T", "U", "V", "W", "X", "Y", "Z", "[", "\\", "]", "^", "_", "U+0060", "a", "b", "c", "d", "e", "f", "g", "h", "i", "j", "k", "l", "m", "n", "o", "p", "q", "r", "s", "t", "u", "v", "w", "x", "y", "z", "{", "|", "}", "~">>

\* The replacement character a UTF-8 decoder emits for an invalid byte.
ReplacementChar == "U+FFFD"

\* One byte of content to one character: line feed, printable ASCII, and
\* the replacement character for a byte that starts no valid sequence (the
\* binary contents explored hold only such bytes above 127).
DecodeByte(b) ==
  IF b = 10 THEN "\n"
  ELSE IF b >= 32 /\ b <= 126 THEN Ascii[b - 31]
  ELSE ReplacementChar

\* content.toString('utf8')
Utf8ToString(bytes) == [i \in 1..Len(bytes) |-> DecodeByte(bytes[i])]

\* The bytes of an ASCII text; used to write the explored contents.
EncodeChar(c) ==
  IF c = "\n" THEN 10
  ELSE 31 + CHOOSE i \in 1..Len(Ascii) : Ascii[i] = c

Utf8Encode(chars) == [i \in 1..Len(chars) |-> EncodeChar(chars[i])]

Base64Alphabet == <<"A", "B", "C", "D", "E", "F", "G", "H", "I", "J", "K", "L", "M", "N", "O", "P", "Q", "R", "S", "T", "U", "V", "W", "X", "Y", "Z", "a", "b", "c", "d", "e", "f", "g", "h", "i", "j", "k", "l", "m", "n", "o", "p", "q", "r", "s", "t", "u", "v", "w", "x", "y", "z", "0", "1", "2", "3", "4", "5", "6", "7", "8", "9", "+", "/">>

Sextet(n) == Base64Alphabet[n + 1]

\* content.toString('base64')
RECURSIVE Base64(_)
Base64(bytes) ==
  IF bytes = <<>> THEN <<>>
  ELSE IF Len(bytes) = 1 THEN
    <<Sextet(bytes[1] \div 4), Sextet((bytes[1] % 4) * 16), "=", "=">>
  ELSE IF Len(bytes) = 2 THEN
    <<Sextet(bytes[1] \div 4),
      Sextet((bytes[1] % 4) * 16 + bytes[2] \div 16),
      Sextet((bytes[2] % 16) * 4), "=">>
  ELSE
    <<Sextet(bytes[1] \div 4),
      Sextet((bytes[1] % 4) * 16 + bytes[2] \div 16),
      Sextet((bytes[2] % 16) * 4 + bytes[3] \div 64),
      Sextet(bytes[3] % 64)>> \o Base64(SubSeq(bytes, 4, Len(bytes)))

\* --------------------------------------------------------------- JSON.parse
\* The JSON subset of the explored documents: null, strings without escapes
\* and objects of these, without white space.  Any other text is a syntax
\* error; every explored text outside the subset is malformed JSON.
ParseFail == [ok |-> FALSE, val |-> Undefined, next |-> 0]

ParseString(s, i) ==
  LET j == IndexOfFrom(s, <<"\"">>, i + 1)
  IN IF i > Len(s) \/ s[i] # "\"" \/ j = 0 THEN ParseFail
     ELSE [ok |-> TRUE, val |-> Str(SubSeq(s, i + 1, j - 1)), next |-> j + 1]

RECURSIVE ParseValue(_, _)
RECURSIVE ParseMembers(_, _, _)
ParseValue(s, i) ==
  IF i > Len(s) THEN ParseFail
  ELSE IF s[i] = "\"" THEN ParseString(s, i)
  ELSE IF s[i] = "{" THEN
    IF i + 1 <= Len(s) /\ s[i + 1] = "}"
    THEN [ok |-> TRUE, val |-> Obj(<<>>), next |-> i + 2]
    ELSE ParseMembers(s, i + 1, <<>>)
  ELSE IF StartsWithAt(s, i, <<"n", "u", "l", "l">>)
    THEN [ok |-> TRUE, val |-> Null, next |-> i + 4]
  ELSE ParseFail

ParseMembers(s, i, acc) ==
  LET k == ParseString(s, i)
  IN IF ~k.ok \/ k.next > Len(s) \/ s[k.next] # ":" THEN ParseFail
     ELSE LET v == ParseValue(s, k.next + 1)
              members == Append(acc, [key |-> k.val.s, value |-> v.val])
          IN IF ~v.ok \/ v.next > Len(s) THEN ParseFail
             ELSE IF s[v.next] = "}"
               THEN [ok |-> TRUE, val |-> Obj(members), next |-> v.next + 1]
             ELSE IF s[v.next] = ","
               THEN ParseMembers(s, v.next + 1, members)
             ELSE ParseFail

\* JSON.parse(text): [ok, val]; ok is FALSE where JSON.parse throws a
\* SyntaxError.
JSONParse(text) ==
  LET r == ParseValue(text, 1)
  IN [ok |-> r.ok /\ r.next = Len(text) + 1, val |-> r.val]

\* value[name] for a value that is not null or undefined: the last member
\* of that name of an object, undefined for a missing member and for the
\* strings of the model.
RECURSIVE LookupMember(_, _)
LookupMember(members, name) ==
  IF members = <<>> THEN Undefined
  ELSE IF members[Len(members)].key = name THEN members[Len(members)].value
  ELSE LookupMember(SubSeq(members, 1, Len(members) - 1), name)

GetProp(value, name) ==
  IF value.t = "obj" THEN LookupMember(value.members, name) ELSE Undefined

\* Reading a property of null or undefined throws a TypeError.
PropThrows(value) == value.t \in {"null", "undefined"}

\* ------------------------------------------------------------- babel.types
identifier(name) == [type |-> "Identifier", name |-> name]
stringLiteral(value) == [type |-> "StringLiteral", value |-> value]
callExpression(callee, arguments) ==
  [type |-> "CallExpression", callee |-> callee, arguments |-> arguments]
functionExpression(id, params, body) ==
  [type |-> "FunctionExpression", id |-> id, params |-> params, body |-> body]
blockStatement(body, directives) ==
  [type |-> "BlockStatement", body |-> body, directives |-> directives]
expressionStatement(expression) ==
  [type |-> "ExpressionStatement", expression |-> expression]
program(body) == [type |-> "Program", body |-> body, directives |-> <<>>]
file(prog) == [type |-> "File", program |-> prog]

\* ---------------------------------------------------------- module constants
S_global == Str(<<"g", "l", "o", "b", "a", "l">>)
S_require == Str(<<"r", "e", "q", "u", "i", "r", "e">>)
S_module == Str(<<"m", "o", "d", "u", "l", "e">>)
S_exports == Str(<<"e", "x", "p", "o", "r", "t", "s">>)
S_this == Str(<<"t", "h", "i", "s">>)
S_d == Str(<<"_", "_", "d">>)
S_name == <<"n", "a", "m", "e">>
S_main == <<"m", "a", "i", "n">>
S_browser == <<"b", "r", "o", "w", "s", "e", "r">>
S_reactNative == <<"r", "e", "a", "c", "t", "-", "n", "a", "t", "i", "v", "e">>
S_providesModule ==
  <<"p", "r", "o", "v", "i", "d", "e", "s", "M", "o", "d", "u", "l", "e">>
DotPng == <<".", "p", "n", "g">>
DotJson == <<".", "j", "s", "o", "n">>
PackageJson == <<"p", "a", "c", "k", "a", "g", "e", ".", "j", "s", "o", "n">>

\* const defaultVariants = {default: {}}
EmptyConfig == "{}"
defaultVariants == Obj(<<[key |-> "default", value |-> EmptyConfig]>>)
moduleFactoryParameters == <<S_global, S_require, S_module, S_exports>>
polyfillFactoryParameters == <<S_global>>

\* Object.keys(obj), in insertion order.
ObjectKeys(obj) == [i \in 1..Len(obj.members) |-> obj.members[i].key]

\* obj[key] for a key of obj.
ObjectGet(obj, key) ==
  obj.members[CHOOSE i \in 1..Len(obj.members) : obj.members[i].key = key].value

\* ------------------------------------------------------------ tree wrapping
makeIdentifier(name) == identifier(name)

MapIdentifiers(parameters) ==
  [i \in 1..Len(parameters) |-> makeIdentifier(parameters[i])]

\* Variant of functionFromProgram that leaves the directives behind.
functionFromProgram_noDirectives(prog, parameters) ==
  functionExpression(
    identifier(Str(<<>>)),
    MapIdentifiers(parameters),
    blockStatement(prog.body, <<>>))

functionFromProgram(prog, parameters) ==
  functionExpression(
    identifier(Str(<<>>)),
    MapIdentifiers(parameters),
    blockStatement(prog.body, prog.directives))

wrapModule(ast, dependencyMapName) ==
  LET params == Append(moduleFactoryParameters, dependencyMapName)
      factory == functionFromProgram(ast.program, params)
      def == callExpression(identifier(S_d), <<factory>>)
  IN file(program(<<expressionStatement(def)>>))

\* Variant of wrapPolyfill that uses the module factory's parameters.
wrapPolyfill_moduleParameters(ast) ==
  LET factory == functionFromProgram(ast.program, moduleFactoryParameters)
      iife == callExpression(factory, <<identifier(S_this)>>)
  IN file(program(<<expressionStatement(iife)>>))

wrapPolyfill(ast) ==
  LET factory == functionFromProgram(ast.program, polyfillFactoryParameters)
      iife == callExpression(factory, <<identifier(S_this)>>)
  IN file(program(<<expressionStatement(iife)>>))

\* ------------------------------------------------- collaborators of the file
\* collect-dependencies: the require calls with one literal argument among
\* the top-level statements, in source order, and the synthesized name of
\* the dependency map parameter.
IsRequireCall(stmt) ==
  /\ stmt.type = "ExpressionStatement"
  /\ stmt.expression.type = "CallExpression"
  /\ stmt.expression.callee.type = "Identifier"
  /\ stmt.expression.callee.name = S_require
  /\ Len(stmt.expression.arguments) = 1
  /\ stmt.expression.arguments[1].type = "StringLiteral"

collectDependencies(ast) ==
  LET calls == SelectSeq(ast.program.body, IsRequireCall)
  IN [dependencies |->
        [i \in 1..Len(calls) |-> calls[i].expression.arguments[1].value],
      dependencyMapName |->
        Str(<<"_", "d", "e", "p", "e", "n", "d", "e", "n", "c", "y", "M", "a", "p">>)]

\* generate: the serializer; its outputs are determined by its arguments.
generate(tree, filename, sourceCode) ==
  [code |-> [t |-> "generated", tree |-> tree],
   map |-> [t |-> "sourcemap", filename |-> filename, sourceCode |-> sourceCode]]

\* docblock.extract: the comment block the text starts with, or the empty
\* string.
extract(text) ==
  LET close == IndexOfFrom(text, <<"*", "/">>, 3)
  IN IF StartsWithAt(text, 1, <<"/", "*">>) /\ close # 0
     THEN SubSeq(text, 1, close + 1)
     ELSE <<>>

\* First position >= i of s holding a character of stops, Len(s) + 1 when
\* there is none.
RECURSIVE ScanUntil(_, _, _)
ScanUntil(s, i, stops) ==
  IF i > Len(s) \/ s[i] \in stops THEN i ELSE ScanUntil(s, i + 1, stops)

\* docblock.parseAsObject: the "@key value" annotations of a comment block.
RECURSIVE ParseAnnotations(_, _, _)
ParseAnnotations(doc, i, acc) ==
  LET at == ScanUntil(doc, i, {"@"})
      keyEnd == ScanUntil(doc, at + 1, {" ", "\n", "*"})
      valEnd == ScanUntil(doc, keyEnd + 1, {" ", "\n", "*"})
  IN IF at > Len(doc) THEN acc
     ELSE ParseAnnotations(doc, valEnd,
            Append(acc, [key |-> SubSeq(doc, at + 1, keyEnd - 1),
                         value |-> Str(SubSeq(doc, keyEnd + 1, valEnd - 1))]))

parseAsObject(doc) == Obj(ParseAnnotations(doc, 1, <<>>))

\* makeResult(ast, filename, sourceCode, isPolyfill = false): the variant's
\* result record and the calls made to collectDependencies and generate, in
\* order.
makeResult(ast, filename, sourceCode, isPolyfillArg) ==
  LET isPolyfill ==
        IF isPolyfillArg = Undefined THEN FALSE ELSE Truthy(isPolyfillArg)
      collected == collectDependencies(ast)
      tree == IF isPolyfill
                THEN wrapPolyfill(ast)
                ELSE wrapModule(ast, collected.dependencyMapName)
      gen == generate(tree, filename, sourceCode)
  IN [result |->
        [code |-> gen.code,
         map |-> gen.map,
         dependencies |-> IF isPolyfill THEN <<>> ELSE collected.dependencies,
         dependencyMapName |->
           IF isPolyfill THEN Undefined ELSE collected.dependencyMapName],
      calls |->
        (IF isPolyfill THEN <<>>
         ELSE <<[op |-> "collectDependencies", arg |-> ast, out |-> collected]>>)
        \o <<[op |-> "generate",
              arg |-> [tree |-> tree, filename |-> filename,
                       sourceCode |-> sourceCode],
              out |-> gen]>>]

\* ------------------------------------------------------------------- inputs
\* File names: an asset, two JSON files (one of them a package manifest in a
\* directory) and a source file.
Filenames ==
  { <<"a", ".", "p", "n", "g">>,
    <<"f", "o", "o", ".", "j", "s", "o", "n">>,
    <<"l", "i", "b", "/", "p", "a", "c", "k", "a", "g", "e", ".", "j", "s", "o", "n">>,
    <<"m", "o", "d", ".", "j", "s">> }

\* Texts: JSON documents with and without a name, the document null, a
\* truncated document, and source texts with and without a docblock.
Texts ==
  { <<"{", "\"", "n", "a", "m", "e", "\"", ":", "\"", "p", "\"", ",", "\"", "m", "a", "i", "n", "\"", ":", "\"", "i", "\"", "}">>,
    <<"{", "\"", "m", "a", "i", "n", "\"", ":", "\"", "i", "\"", "}">>,
    <<"n", "u", "l", "l">>,
    <<"{", "\"", "n", "a", "m", "e", "\"">>,
    <<"/", "*", "*", " ", "@", "p", "r", "o", "v", "i", "d", "e", "s", "M", "o", "d", "u", "l", "e", " ", "M", " ", "*", "/", "x">>,
    <<"x">> }

\* Buffers: the texts, and four bytes that are no valid UTF-8.
Contents == {Utf8Encode(text) : text \in Texts} \cup {<<137, 255, 250, 254>>}

VariantNames == {"default", "dev", "prod"}
Configs == {"{dev: true}", "{dev: false}"}
VariantEntries == [key : VariantNames, value : Configs]

\* The objects a caller can pass as options.variants: up to MaxVariants
\* distinct keys, in any insertion order.
VariantObjects ==
  { Obj(m) : m \in
      { f \in UNION { [1..n -> VariantEntries] : n \in 0..MaxVariants } :
          \A i, j \in 1..Len(f) : f[i].key = f[j].key => i = j } }

Options ==
  [filename : Filenames,
   polyfill : {Undefined, JSTrue, JSFalse},
   variants : {Undefined} \cup VariantObjects]

\* Trees a transformer returns: statements and a directive, and a single
\* require call.
RequireStmt(specifier) ==
  expressionStatement(
    callExpression(identifier(S_require), <<stringLiteral(Str(specifier))>>))
OtherStmt == expressionStatement(identifier(Str(<<"x">>)))
AstA ==
  file([type |-> "Program",
        body |-> <<RequireStmt(<<"b">>), OtherStmt, RequireStmt(<<"a">>)>>,
        directives |-> <<[type |-> "Directive", value |-> "use strict"]>>])
AstB ==
  file([type |-> "Program",
        body |-> <<RequireStmt(<<"a">>)>>,
        directives |-> <<>>])

\* What one call of transformer.transform does: it returns a result holding
\* a tree, or it throws an Error object.
TransformerOutcomes ==
  { [threw |-> FALSE, value |-> [ast |-> AstA]],
    [threw |-> FALSE, value |-> [ast |-> AstB]],
    [threw |-> TRUE, value |-> Err("TransformError")],
    [threw |-> TRUE, value |-> Err("SyntaxError")] }

\* -------------------------------------------------------------------- state
VARIABLES
  content,    \* the Buffer passed to transformModule
  options,    \* the options passed to transformModule
  pc,         \* "start", "series", "callback" or "done"
  code,       \* const code (line 51)
  tasks,      \* keys of the tasks series has not run yet
  results,    \* series' results object
  error,      \* the error series hands to its final callback
  calls,      \* calls made to the transformer, collector, serializer, docblock
  heap,       \* the result records allocated; a reference is an index
  cbCalls,    \* invocations of callback: [error, result]
  thrown      \* the exception that left transformModule, or Null

vars ==
  <<content, options, pc, code, tasks, results, error, calls, heap, cbCalls,
    thrown>>

Init ==
  /\ content \in Contents
  /\ options \in Options
  /\ pc = "start"
  /\ code = <<>>
  /\ tasks = <<>>
  /\ results = <<>>
  /\ error = Null
  /\ calls = <<>>
  /\ heap = <<>>
  /\ cbCalls = <<>>
  /\ thrown = Null

\* ------------------------------------------------------------ the callback
\* callback(error) and callback(null, result)
Fail(err) == [error |-> err, result |-> Undefined]
Deliver(result) == [error |-> Null, result |-> result]

\* ------------------------------------------------------------------- asset
transformAsset ==
  /\ pc = "start"
  /\ EndsWith(options.filename, DotPng)
  /\ cbCalls' = Append(cbCalls, Deliver(
       [assetContent |-> Str(Base64(content)),
        code |-> <<>>,
        file |-> options.filename,
        hasteID |-> Null,
        transformed |-> <<>>,
        type |-> "asset",
        package |-> Undefined]))
  /\ pc' = "done"
  /\ UNCHANGED <<content, options, code, tasks, results, error, calls, heap,
                 thrown>>

\* -------------------------------------------------------------------- JSON
\* Variant of JSONWrapperCode that joins the parameters without a space.
JSONWrapperCode_joinedTight(json) ==
  <<"_", "_", "d", "(", "f", "u", "n", "c", "t", "i", "o", "n", "(">>
  \o Join(moduleFactoryParameters, <<",">>)
  \o <<")", " ", "{", " ", "m", "o", "d", "u", "l", "e", ".", "e", "x", "p", "o", "r", "t", "s", " ", "=", " ", "\n">>
  \o json
  \o <<"\n", "}", ")", ";">>

\* The template literal of lines 103-106.
JSONWrapperCode(json) ==
  <<"_", "_", "d", "(", "f", "u", "n", "c", "t", "i", "o", "n", "(">>
  \o Join(moduleFactoryParameters, <<",", " ">>)
  \o <<")", " ", "{", " ", "m", "o", "d", "u", "l", "e", ".", "e", "x", "p", "o", "r", "t", "s", " ", "=", " ", "\n">>
  \o json
  \o <<"\n", "}", ")", ";">>

\* Variant of JSONVariants that ignores options.variants.
JSONVariants_onlyDefault(opts) == defaultVariants

\* options.variants || defaultVariants (line 116)
JSONVariants(opts) == OrElse(opts.variants, defaultVariants)

\* Variant of JSONParseThrows in which a syntax error is swallowed.
JSONParseThrows_swallowed(parsed) == FALSE

\* Line 101: a SyntaxError of JSON.parse leaves transformJSON.
JSONParseThrows(parsed) == ~parsed.ok

\* result.package of a package.json (lines 128-135); a property that is not
\* set reads as undefined.
PackageOf(filename, value) ==
  IF basename(filename) = PackageJson
  THEN Obj(<<[key |-> S_name, value |-> GetProp(value, S_name)],
             [key |-> S_main, value |-> GetProp(value, S_main)],
             [key |-> S_browser, value |-> GetProp(value, S_browser)],
             [key |-> S_reactNative, value |-> GetProp(value, S_reactNative)]>>)
  ELSE Undefined

transformJSON ==
  /\ pc = "start"
  /\ ~EndsWith(options.filename, DotPng)
  /\ EndsWith(options.filename, DotJson)
  /\ LET json == Utf8ToString(content)
         parsed == JSONParse(json)
         value == IF parsed.ok THEN parsed.val ELSE Undefined
         moduleData == [code |-> JSONWrapperCode(json),
                        map |-> Null,
                        dependencies |-> <<>>]
         ref == Len(heap) + 1
         keys == ObjectKeys(JSONVariants(options))
         transformed == [i \in 1..Len(keys) |-> [key |-> keys[i], value |-> ref]]
     IN /\ code' = json
        /\ IF JSONParseThrows(parsed)
           THEN /\ thrown' = Err("SyntaxError")
                /\ UNCHANGED <<heap, cbCalls>>
           ELSE IF PropThrows(value)
           THEN /\ thrown' = Err("TypeError")
                /\ heap' = Append(heap, moduleData)
                /\ UNCHANGED cbCalls
           ELSE /\ heap' = Append(heap, moduleData)
                /\ cbCalls' = Append(cbCalls, Deliver(
                     [assetContent |-> Null,
                      code |-> json,
                      file |-> options.filename,
                      hasteID |-> GetProp(value, S_name),
                      transformed |-> transformed,
                      type |-> "module",
                      package |-> PackageOf(options.filename, value)]))
                /\ UNCHANGED thrown
  /\ pc' = "done"
  /\ UNCHANGED <<content, options, tasks, results, error, calls>>

\* ------------------------------------------------------------- source code
\* const {variants = defaultVariants} = options (line 57)
Variants(opts) ==
  IF opts.variants = Undefined THEN defaultVariants ELSE opts.variants

\* Lines 58-73: one task per key of variants, handed to series.  Without
\* tasks series calls its final callback at once.
transformSource ==
  /\ pc = "start"
  /\ ~EndsWith(options.filename, DotPng)
  /\ ~EndsWith(options.filename, DotJson)
  /\ code' = Utf8ToString(content)
  /\ tasks' = ObjectKeys(Variants(options))
  /\ pc' = IF tasks' = <<>> THEN "callback" ELSE "series"
  /\ UNCHANGED <<content, options, results, error, calls, heap, cbCalls,
                 thrown>>

\* Variant of TransformArgs that hands every task the first configuration.
TransformArgs_firstConfig(sourceCode, filename, variants, name) ==
  [code |-> sourceCode, filename |-> filename,
   config |-> variants.members[1].value]

\* The arguments of transformer.transform in the task of name (lines 62-66).
TransformArgs(sourceCode, filename, variants, name) ==
  [code |-> sourceCode, filename |-> filename,
   config |-> ObjectGet(variants, name)]

\* Variant of TaskResult whose catch reports no error.
TaskResult_swallowed(out) ==
  IF out.threw
  THEN [err |-> Null, value |-> Null]
  ELSE [err |-> Null, value |-> out.value]

\* The task's try/catch (lines 61-69): cb(null, value) or cb(error, null).
TaskResult(out) ==
  IF out.threw
  THEN [err |-> out.value, value |-> Null]
  ELSE [err |-> Null, value |-> out.value]

\* Variant of SeriesContinues that runs the remaining tasks after an error.
SeriesContinues_afterError(err, remaining) == remaining # <<>>

\* series runs the next task only after a task reported no error and while
\* tasks remain.
SeriesContinues(err, remaining) == ~Truthy(err) /\ remaining # <<>>

\* series runs the first remaining task; the task calls the transformer and
\* reports to series, which stores the value under the task's key and keeps
\* the first error.
runTask ==
  /\ pc = "series"
  /\ tasks # <<>>
  /\ \E out \in TransformerOutcomes :
       LET name == Head(tasks)
           args == TransformArgs(code, options.filename, Variants(options), name)
           r == TaskResult(out)
           err == IF Truthy(error) THEN error ELSE r.err
       IN /\ calls' = Append(calls,
               [op |-> "transform", key |-> name, arg |-> args, out |-> out])
          /\ results' = Append(results, [key |-> name, value |-> r.value])
          /\ error' = err
          /\ tasks' = Tail(tasks)
          /\ pc' = IF SeriesContinues(r.err, tasks') THEN "series" ELSE "callback"
  /\ UNCHANGED <<content, options, code, heap, cbCalls, thrown>>

\* series' final callback with an error (lines 74-77).
seriesError ==
  /\ pc = "callback"
  /\ Truthy(error)
  /\ cbCalls' = Append(cbCalls, Fail(error))
  /\ pc' = "done"
  /\ UNCHANGED <<content, options, code, tasks, results, error, calls, heap,
                 thrown>>

\* The loop of lines 82-84 over the entries of results: the references
\* stored in transformed, the records allocated and the calls made.  base is
\* the number of records allocated before.
RECURSIVE MakeAll(_, _, _, _, _)
MakeAll(entries, filename, sourceCode, isPolyfill, base) ==
  IF entries = <<>>
  THEN [transformed |-> <<>>, objects |-> <<>>, calls |-> <<>>]
  ELSE LET e == entries[1]
           m == makeResult(e.value.ast, filename, sourceCode, isPolyfill)
           rest == MakeAll(Tail(entries), filename, sourceCode, isPolyfill,
                           base + 1)
       IN [transformed |->
             <<[key |-> e.key, value |-> base + 1]>> \o rest.transformed,
           objects |-> <<m.result>> \o rest.objects,
           calls |->
             [i \in 1..Len(m.calls) |->
                [op |-> m.calls[i].op, key |-> e.key,
                 arg |-> m.calls[i].arg, out |-> m.calls[i].out]]
             \o rest.calls]

\* The entries before the first whose value is null: value.ast of null
\* throws a TypeError and ends the loop.
RECURSIVE UntilNull(_)
UntilNull(entries) ==
  IF entries = <<>> \/ entries[1].value = Null THEN <<>>
  ELSE <<entries[1]>> \o UntilNull(Tail(entries))

\* series' final callback without an error (lines 79-95).
seriesSuccess ==
  /\ pc = "callback"
  /\ ~Truthy(error)
  /\ LET usable == UntilNull(results)
         made == MakeAll(usable, options.filename, code, options.polyfill,
                         Len(heap))
         block == extract(code)
         annotations == parseAsObject(block)
     IN /\ heap' = heap \o made.objects
        /\ IF Len(usable) < Len(results)
           THEN /\ thrown' = Err("TypeError")
                /\ calls' = calls \o made.calls
                /\ UNCHANGED cbCalls
           ELSE /\ calls' = calls \o made.calls
                     \o <<[op |-> "docblock", key |-> "", arg |-> code,
                           out |-> annotations]>>
                /\ cbCalls' = Append(cbCalls, Deliver(
                     [assetContent |-> Null,
                      code |-> code,
                      file |-> options.filename,
                      hasteID |-> OrElse(GetProp(annotations, S_providesModule),
                                         Null),
                      transformed |-> made.transformed,
                      type |-> IF Truthy(options.polyfill)
                                 THEN "script" ELSE "module",
                      package |-> Undefined]))
                /\ UNCHANGED thrown
  /\ pc' = "done"
  /\ UNCHANGED <<content, options, code, tasks, results, error>>

Next ==
  \/ transformAsset
  \/ transformJSON
  \/ transformSource
  \/ runTask
  \/ seriesError
  \/ seriesSuccess

Spec == Init /\ [][Next]_vars

\* ------------------------------------------------------------------- types
TypeOK ==
  /\ pc \in {"start", "series", "callback", "done"}
  /\ Len(cbCalls) <= 1

\* ------------------------------------------------- vocabulary of the claims
IsAssetInput == EndsWith(options.filename, DotPng)
IsJSONInput == ~IsAssetInput /\ EndsWith(options.filename, DotJson)
IsSourceInput == ~IsAssetInput /\ ~EndsWith(options.filename, DotJson)
Finished == pc = "done"
Delivered == cbCalls # <<>> /\ cbCalls[1].error = Null
DeliveredResult == cbCalls[1].result

\* The variants mapping the caller asked for: the one passed, or the single
\* key "default" with an empty configuration when none was passed.
RequestedEntries ==
  IF options.variants = Undefined
  THEN <<[key |-> "default", value |-> "{}"]>>
  ELSE options.variants.members
RequestedKeys == {RequestedEntries[i].key : i \in 1..Len(RequestedEntries)}

KeysOf(entries) == {entries[i].key : i \in 1..Len(entries)}
TransformCalls == SelectSeq(calls, LAMBDA c : c.op = "transform")
GenerateCalls == SelectSeq(calls, LAMBDA c : c.op = "generate")
CollectCalls == SelectSeq(calls, LAMBDA c : c.op = "collectDependencies")
DocblockCalls == SelectSeq(calls, LAMBDA c : c.op = "docblock")
SourceText == Utf8ToString(content)

\* C1: a delivered result's transformed has exactly the keys of the variants
\* mapping in effect, each once, on the source path and on the JSON path,
\* and no key at all for an asset.
C1_KeysMatchVariants ==
  Delivered =>
    /\ IsAssetInput <=> DeliveredResult.type = "asset"
    /\ IF DeliveredResult.type = "asset"
       THEN DeliveredResult.transformed = <<>>
       ELSE /\ KeysOf(DeliveredResult.transformed) = RequestedKeys
            /\ Len(DeliveredResult.transformed) = Cardinality(RequestedKeys)

C1_Witness ==
  /\ Delivered
  /\ IsSourceInput
  /\ Len(DeliveredResult.transformed) = 2
  /\ options.variants # Undefined

C3_ExactlyOncePerKey ==
  (IsSourceInput /\ pc \in {"callback", "done"}) =>
    \A k \in RequestedKeys :
      Cardinality({i \in 1..Len(calls) :
        calls[i].op = "transform" /\ calls[i].key = k}) = 1

\* C3 amended: the calls of transformer.transform follow the keys of the
\* variants mapping in order, one call per key, each with the source text,
\* the file name and that key's configuration; only the last call made can
\* have raised, and series has ended only after a call raised or after every
\* key had its call.
C3_OncePerKeyUntilRaise ==
  LET tc == TransformCalls
  IN /\ Len(tc) <= Len(RequestedEntries)
     /\ \A i \in 1..Len(tc) :
          /\ tc[i].key = RequestedEntries[i].key
          /\ tc[i].arg = [code |-> SourceText,
                          filename |-> options.filename,
                          config |-> RequestedEntries[i].value]
          /\ i < Len(tc) => ~tc[i].out.threw
     /\ (IsSourceInput /\ pc \in {"callback", "done"}) =>
          \/ Len(tc) = Len(RequestedEntries)
          \/ (tc # <<>> /\ tc[Len(tc)].out.threw)
     /\ ~IsSourceInput => tc = <<>>

C3_Witness ==
  /\ Finished
  /\ Delivered
  /\ Len(TransformCalls) = 2
  /\ TransformCalls[1].arg.config # TransformCalls[2].arg.config

\* C4: in a delivered result no two variant keys refer to the same record.
C4_RecordsDistinct ==
  Delivered =>
    \A i, j \in 1..Len(DeliveredResult.transformed) :
      i # j =>
        DeliveredResult.transformed[i].value # DeliveredResult.transformed[j].value

\* C5: once the input is known not to be an asset, the variants mapping in
\* use has a key, and a delivered result that is not an asset has an entry
\* in transformed.
C5_VariantsNeverEmpty ==
  /\ (IsSourceInput /\ pc # "start") => ObjectKeys(Variants(options)) # <<>>
  /\ (IsJSONInput /\ pc # "start") => ObjectKeys(JSONVariants(options)) # <<>>
  /\ (Delivered /\ DeliveredResult.type # "asset") =>
       DeliveredResult.transformed # <<>>

\* C6: for a .json file whose text parses to a document, a result is
\* delivered in which every variant's code is the __d wrapper around the
\* text as it was given, every variant's map is null, and hasteID is the
\* document's name, or undefined without one; the transformer is not called.
C6_ExpectedCode ==
  <<"_", "_", "d", "(", "f", "u", "n", "c", "t", "i", "o", "n", "(", "g", "l", "o", "b", "a", "l", ",", " ", "r", "e", "q", "u", "i", "r", "e", ",", " ", "m", "o", "d", "u", "l", "e", ",", " ", "e", "x", "p", "o", "r", "t", "s", ")", " ", "{", " ", "m", "o", "d", "u", "l", "e", ".", "e", "x", "p", "o", "r", "t", "s", " ", "=", " ", "\n">>
  \o SourceText \o <<"\n", "}", ")", ";">>

C6_JSONResult ==
  LET parsed == JSONParse(SourceText)
      names == IF parsed.val.t = "obj"
               THEN {i \in 1..Len(parsed.val.members) :
                       parsed.val.members[i].key = <<"n", "a", "m", "e">>}
               ELSE {}
  IN (IsJSONInput /\ parsed.ok) =>
       /\ calls = <<>>
       /\ (Finished /\ parsed.val.t = "obj") => Delivered
       /\ Delivered =>
            /\ \A i \in 1..Len(DeliveredResult.transformed) :
                 LET r == heap[DeliveredResult.transformed[i].value]
                 IN r.code = C6_ExpectedCode /\ r.map = Null
            /\ \A n \in names :
                 DeliveredResult.hasteID = parsed.val.members[n].value
            /\ names = {} => DeliveredResult.hasteID = Undefined

C6_Witness ==
  /\ IsJSONInput
  /\ Delivered
  /\ Len(DeliveredResult.transformed) = 2
  /\ DeliveredResult.hasteID = Str(<<"p">>)

\* C7: for a .json file whose text does not parse, the callback is never
\* invoked and the call ends with a SyntaxError thrown to the caller.
C7_MalformedJSONThrows ==
  (IsJSONInput /\ ~JSONParse(SourceText).ok) =>
    /\ cbCalls = <<>>
    /\ Finished => thrown = Err("SyntaxError")

C7_Witness ==
  /\ IsJSONInput
  /\ Finished
  /\ ~JSONParse(SourceText).ok
  /\ thrown # Null

\* C8: with options.polyfill true, a delivered source result has type
\* 'script', every variant has no dependencies and no dependencyMapName,
\* collectDependencies is not called, and every tree handed to generate is
\* one statement calling a function of the single parameter global with the
\* single argument this.
C8_Polyfill ==
  (IsSourceInput /\ options.polyfill = JSTrue) =>
    /\ CollectCalls = <<>>
    /\ \A i \in 1..Len(GenerateCalls) :
         LET body == GenerateCalls[i].arg.tree.program.body
         IN /\ Len(body) = 1
            /\ body[1].type = "ExpressionStatement"
            /\ body[1].expression.type = "CallExpression"
            /\ body[1].expression.callee.type = "FunctionExpression"
            /\ body[1].expression.callee.params =
                 <<[type |-> "Identifier",
                    name |-> Str(<<"g", "l", "o", "b", "a", "l">>)]>>
            /\ body[1].expression.arguments =
                 <<[type |-> "Identifier", name |-> Str(<<"t", "h", "i", "s">>)]>>
    /\ Delivered =>
         /\ DeliveredResult.type = "script"
         /\ Len(GenerateCalls) = Len(DeliveredResult.transformed)
         /\ \A i \in 1..Len(DeliveredResult.transformed) :
              LET r == heap[DeliveredResult.transformed[i].value]
              IN r.dependencies = <<>> /\ r.dependencyMapName = Undefined

C8_Witness ==
  /\ IsSourceInput
  /\ options.polyfill = JSTrue
  /\ Delivered
  /\ Len(GenerateCalls) = 2

\* C9: every tree handed to generate is one statement wrapping a function
\* whose body is the program body and directives the transformer returned
\* for that variant; unless polyfill is set the function is the only
\* argument of a call of __d and has the parameters global, require, module,
\* exports and the dependencyMapName the collector returned for the variant,
\* which the variant's result reports together with the collector's
\* dependencies.
C9_WrappedFunction(i) ==
  LET stmt == GenerateCalls[i].arg.tree.program.body[1]
  IN IF Truthy(options.polyfill)
     THEN stmt.expression.callee
     ELSE stmt.expression.arguments[1]

C9_Wrapping ==
  \A i \in 1..Len(GenerateCalls) :
    LET tree == GenerateCalls[i].arg.tree
        ast == TransformCalls[i].out.value.ast
        fn == C9_WrappedFunction(i)
    IN /\ GenerateCalls[i].key = TransformCalls[i].key
       /\ tree.type = "File"
       /\ Len(tree.program.body) = 1
       /\ tree.program.body[1].type = "ExpressionStatement"
       /\ tree.program.body[1].expression.type = "CallExpression"
       /\ fn.type = "FunctionExpression"
       /\ fn.body.type = "BlockStatement"
       /\ fn.body.body = ast.program.body
       /\ fn.body.directives = ast.program.directives
       /\ ~Truthy(options.polyfill) =>
            LET collected == CollectCalls[i]
                r == heap[Len(heap) - Len(GenerateCalls) + i]
            IN /\ collected.key = GenerateCalls[i].key
               /\ collected.arg = ast
               /\ tree.program.body[1].expression.callee =
                    [type |-> "Identifier", name |-> Str(<<"_", "_", "d">>)]
               /\ Len(tree.program.body[1].expression.arguments) = 1
               /\ Len(fn.params) = 5
               /\ fn.params[1].name = Str(<<"g", "l", "o", "b", "a", "l">>)
               /\ fn.params[2].name = Str(<<"r", "e", "q", "u", "i", "r", "e">>)
               /\ fn.params[3].name = Str(<<"m", "o", "d", "u", "l", "e">>)
               /\ fn.params[4].name = Str(<<"e", "x", "p", "o", "r", "t", "s">>)
               /\ fn.params[5].name = collected.out.dependencyMapName
               /\ r.dependencyMapName = collected.out.dependencyMapName
               /\ r.dependencies = collected.out.dependencies

C9_Witness ==
  /\ Delivered
  /\ ~Truthy(options.polyfill)
  /\ Len(GenerateCalls) = 2
  /\ TransformCalls[1].out.value.ast = AstA
  /\ TransformCalls[2].out.value.ast = AstB

====
